---- MODULE Spec2Model ----
(***************************************************************************)
(* Array2D library (src/array2D.py): a dictionary-backed grid (Array2D)    *)
(* and a movable coordinate-plus-payload value (Point).                    *)
(*                                                                         *)
(* The dictionary _matrix is modelled as the sequence of its entries in    *)
(* insertion order (a Python dict iterates in insertion order), each entry *)
(* a record [k |-> <<x, y>>, v |-> payload].  The Python value None is the *)
(* string "None".  Every method is an operator returning the state it      *)
(* leaves behind, its return value and the number of warn() calls it made; *)
(* the actions apply these operators and record the call in `call`.        *)
(***************************************************************************)
EXTENDS Integers, Sequences

VARIABLES cols, rows, wrapX, wrapY, matrix, pt, call

vars == <<cols, rows, wrapX, wrapY, matrix, pt, call>>

(* ------------------------------ bounds --------------------------------- *)
\* grids have at most MaxCells cells: cols * rows <= MaxCells
MaxCells == 4
\* setMove/getMove are called with moves in -MaxMove..MaxMove
MaxMove == 2
\* lists handed to getData/setData/iterLocs have at most MaxLen elements
MaxLen == 2
\* keys outside the rectangle that the model lets the dictionary collect
MaxExtra == 1

None == "None"
Data == {None, "a"}
Directions == {"UP", "DOWN", "LEFT", "RIGHT"}
\* a direction argument that matches no case (e.g. None)
NoDirection == "NONE"

\* coordinates handed to the methods, and the positions of the Point the
\* model follows: the grid's rectangle and one step beyond it on every side
Coord == ((0 - 1)..cols) \X ((0 - 1)..rows)
Moves == (0 - MaxMove)..MaxMove

(* ----------------------------- dictionary ------------------------------ *)
\* `key in self._matrix`
HasKey(m, key) == \E n \in 1..Len(m) : m[n].k = key

\* self._matrix[key], defined when the key is present (KeyError otherwise)
Lookup(m, key) == m[CHOOSE n \in 1..Len(m) : m[n].k = key].v

\* self._matrix[key] = d : replaces in place, or inserts at the end
Store(m, key, d) ==
    IF HasKey(m, key)
    THEN [n \in 1..Len(m) |-> IF m[n].k = key THEN [k |-> key, v |-> d] ELSE m[n]]
    ELSE Append(m, [k |-> key, v |-> d])

Keys(m) == {m[n].k : n \in 1..Len(m)}

(* ------------------------------- Point --------------------------------- *)
\* Point.__init__
NewPoint(xy, d) == [xyPair |-> xy, data |-> d]

\* Point.getMove: pure arithmetic, no bounds
GetMove(p, direction, moves) ==
    CASE direction = "UP"    -> [ret |-> <<p.xyPair[1], p.xyPair[2] - moves>>, warns |-> 0]
      [] direction = "DOWN"  -> [ret |-> <<p.xyPair[1], p.xyPair[2] + moves>>, warns |-> 0]
      [] direction = "LEFT"  -> [ret |-> <<p.xyPair[1] - moves, p.xyPair[2]>>, warns |-> 0]
      [] direction = "RIGHT" -> [ret |-> <<p.xyPair[1] + moves, p.xyPair[2]>>, warns |-> 0]
      [] OTHER               -> [ret |-> p.xyPair, warns |-> 1]

\* Point.setPos; useGrid is `matrix is not None` (an Array2D is always truthy)
SetPos(p, xy, useGrid) ==
    IF ~useGrid \/ (cols > xy[1] /\ rows > xy[2] /\ xy[1] >= 0 /\ xy[2] >= 0)
    THEN [pt |-> [p EXCEPT !.xyPair = xy], warns |-> 0]
    ELSE [pt |-> p, warns |-> 1]

\* SetMove with the UP and LEFT bound tests written > 0 instead of >= 0: a
\* faulty variant that C3 tells apart from SetMove
SetMoveStrictZero(p, direction, moves, useGrid) ==
    LET x == p.xyPair[1]
        y == p.xyPair[2]
    IN CASE direction = "UP" ->
              IF ~useGrid \/ (y - moves) > 0
              THEN IF useGrid /\ wrapY
                   THEN [pt |-> [p EXCEPT !.xyPair = <<x, (y - moves) % rows>>], warns |-> 0]
                   ELSE [pt |-> [p EXCEPT !.xyPair = <<x, y - moves>>], warns |-> 0]
              ELSE [pt |-> p, warns |-> 1]
         [] direction = "DOWN" ->
              IF ~useGrid \/ (y + moves) < rows
              THEN IF useGrid /\ wrapY
                   THEN [pt |-> [p EXCEPT !.xyPair = <<x, (y + moves) % rows>>], warns |-> 0]
                   ELSE [pt |-> [p EXCEPT !.xyPair = <<x, y + moves>>], warns |-> 0]
              ELSE [pt |-> p, warns |-> 1]
         [] direction = "LEFT" ->
              IF ~useGrid \/ (x - moves) > 0
              THEN IF useGrid /\ wrapX
                   THEN [pt |-> [p EXCEPT !.xyPair = <<(x - moves) % cols, y>>], warns |-> 0]
                   ELSE [pt |-> [p EXCEPT !.xyPair = <<x - moves, y>>], warns |-> 0]
              ELSE [pt |-> p, warns |-> 1]
         [] direction = "RIGHT" ->
              IF ~useGrid \/ (x + moves) < cols
              THEN IF useGrid /\ wrapX
                   THEN [pt |-> [p EXCEPT !.xyPair = <<(x + moves) % cols, y>>], warns |-> 0]
                   ELSE [pt |-> [p EXCEPT !.xyPair = <<x + moves, y>>], warns |-> 0]
              ELSE [pt |-> p, warns |-> 1]
         [] OTHER -> [pt |-> p, warns |-> 1]

\* Point.setMove
SetMove(p, direction, moves, useGrid) ==
    LET x == p.xyPair[1]
        y == p.xyPair[2]
    IN CASE direction = "UP" ->
              IF ~useGrid \/ (y - moves) >= 0
              THEN IF useGrid /\ wrapY
                   THEN [pt |-> [p EXCEPT !.xyPair = <<x, (y - moves) % rows>>], warns |-> 0]
                   ELSE [pt |-> [p EXCEPT !.xyPair = <<x, y - moves>>], warns |-> 0]
              ELSE [pt |-> p, warns |-> 1]
         [] direction = "DOWN" ->
              IF ~useGrid \/ (y + moves) < rows
              THEN IF useGrid /\ wrapY
                   THEN [pt |-> [p EXCEPT !.xyPair = <<x, (y + moves) % rows>>], warns |-> 0]
                   ELSE [pt |-> [p EXCEPT !.xyPair = <<x, y + moves>>], warns |-> 0]
              ELSE [pt |-> p, warns |-> 1]
         [] direction = "LEFT" ->
              IF ~useGrid \/ (x - moves) >= 0
              THEN IF useGrid /\ wrapX
                   THEN [pt |-> [p EXCEPT !.xyPair = <<(x - moves) % cols, y>>], warns |-> 0]
                   ELSE [pt |-> [p EXCEPT !.xyPair = <<x - moves, y>>], warns |-> 0]
              ELSE [pt |-> p, warns |-> 1]
         [] direction = "RIGHT" ->
              IF ~useGrid \/ (x + moves) < cols
              THEN IF useGrid /\ wrapX
                   THEN [pt |-> [p EXCEPT !.xyPair = <<(x + moves) % cols, y>>], warns |-> 0]
                   ELSE [pt |-> [p EXCEPT !.xyPair = <<x + moves, y>>], warns |-> 0]
              ELSE [pt |-> p, warns |-> 1]
         [] OTHER -> [pt |-> p, warns |-> 1]

(* ------------------------------ Array2D -------------------------------- *)
\* the inner loop of the constructor's comprehension: for i in range(cols)
RECURSIVE InitRow(_, _, _, _)
InitRow(i, c, j, d) ==
    IF i >= c THEN <<>>
    ELSE <<[k |-> <<i, j>>, v |-> d]>> \o InitRow(i + 1, c, j, d)

\* the outer loop of the constructor's comprehension: for j in range(rows)
RECURSIVE InitRows(_, _, _, _)
InitRows(j, c, r, d) ==
    IF j >= r THEN <<>>
    ELSE InitRow(0, c, j, d) \o InitRows(j + 1, c, r, d)

\* the constructor's comprehension with its loops swapped (columns outer): a
\* faulty variant that C10 tells apart from NewMatrix
RECURSIVE InitColumnsFirst(_, _, _, _)
InitColumnsFirst(i, c, r, d) ==
    IF i >= c THEN <<>>
    ELSE [n \in 1..r |-> [k |-> <<i, n - 1>>, v |-> d]] \o InitColumnsFirst(i + 1, c, r, d)

NewMatrixColumnsFirst(c, r, d) == InitColumnsFirst(0, c, r, d)

\* Array2D.__init__: the dictionary built for a cols x rows grid
NewMatrix(c, r, d) == InitRows(0, c, r, d)

\* the grid's rectangle [0, cols) x [0, rows)
Rect == (0..(cols - 1)) \X (0..(rows - 1))
Inside(xy) == xy[1] >= 0 /\ xy[1] < cols /\ xy[2] >= 0 /\ xy[2] < rows

\* for pair in xyPair (getData, list form); st = [dataList, giveWarning, warns]
RECURSIVE GetDataLoop(_, _, _, _)
GetDataLoop(m, l, n, st) ==
    IF n > Len(l) THEN st
    ELSE IF HasKey(m, l[n])
         THEN GetDataLoop(m, l, n + 1,
                          [st EXCEPT !.dataList = Append(@, Lookup(m, l[n]))])
         ELSE GetDataLoop(m, l, n + 1,
                          [dataList    |-> Append(st.dataList, None),
                           giveWarning |-> FALSE,
                           warns       |-> IF st.giveWarning THEN st.warns + 1 ELSE st.warns])

\* Array2D.getData; arg = [isList |-> FALSE, l |-> <<xy>>] is the tuple form,
\* [isList |-> TRUE, l |-> <<xy, ...>>] the list form.  ret is the sequence of
\* the data returned: its one element is the return value of the tuple form.
GetData(m, arg) ==
    IF ~arg.isList
    THEN IF HasKey(m, arg.l[1])
         THEN [ret |-> <<Lookup(m, arg.l[1])>>, warns |-> 0]
         ELSE [ret |-> <<None>>, warns |-> 1]
    ELSE LET st == GetDataLoop(m, arg.l, 1,
                               [dataList |-> <<>>, giveWarning |-> TRUE, warns |-> 0])
         IN [ret |-> st.dataList, warns |-> st.warns]

\* for coord in xyPair (setData); st = [m, giveWarning]
RECURSIVE SetDataLoop(_, _, _, _)
SetDataLoop(l, n, d, st) ==
    IF n > Len(l) THEN st
    ELSE IF HasKey(st.m, l[n])
         THEN SetDataLoop(l, n + 1, d, [st EXCEPT !.m = Store(@, l[n], d)])
         ELSE SetDataLoop(l, n + 1, d, [st EXCEPT !.giveWarning = TRUE])

\* setData whose loop stops at the first coordinate out of range: a faulty
\* variant that C8 tells apart from SetData
RECURSIVE SetDataLoopStops(_, _, _, _)
SetDataLoopStops(l, n, d, st) ==
    IF n > Len(l) THEN st
    ELSE IF HasKey(st.m, l[n])
         THEN SetDataLoopStops(l, n + 1, d, [st EXCEPT !.m = Store(@, l[n], d)])
         ELSE [st EXCEPT !.giveWarning = TRUE]

SetDataStops(m, arg, d) ==
    LET st == SetDataLoopStops(arg.l, 1, d, [m |-> m, giveWarning |-> FALSE])
    IN [m |-> st.m, warns |-> IF st.giveWarning THEN 1 ELSE 0]

\* Array2D.setData; the tuple form is first wrapped in a list
SetData(m, arg, d) ==
    LET st == SetDataLoop(arg.l, 1, d, [m |-> m, giveWarning |-> FALSE])
    IN [m |-> st.m, warns |-> IF st.giveWarning THEN 1 ELSE 0]

\* Array2D.loadFrom: a dictionary store, which never raises KeyError
ArrayLoadFrom(m, p) ==
    [m |-> Store(m, p.xyPair, p.data), pt |-> p, warns |-> 0]

\* Array2D.saveTo
ArraySaveTo(m, p) ==
    IF HasKey(m, p.xyPair)
    THEN [m |-> m, pt |-> [p EXCEPT !.data = Lookup(m, p.xyPair)], warns |-> 0]
    ELSE [m |-> m, pt |-> p, warns |-> 1]

\* Array2D.asPoint; ok = FALSE is the return value None
AsPoint(m, xy) ==
    IF HasKey(m, xy)
    THEN [ok |-> TRUE, pt |-> NewPoint(xy, Lookup(m, xy)), warns |-> 0]
    ELSE [ok |-> FALSE, pt |-> NewPoint(xy, None), warns |-> 1]

\* Point.loadFrom
PointLoadFrom(p, m) ==
    LET r == GetData(m, [isList |-> FALSE, l |-> <<p.xyPair>>])
    IN [m |-> m, pt |-> [p EXCEPT !.data = r.ret[1]], warns |-> r.warns]

\* Point.saveTo
PointSaveTo(p, m) ==
    LET r == SetData(m, [isList |-> FALSE, l |-> <<p.xyPair>>], p.data)
    IN [m |-> r.m, pt |-> p, warns |-> r.warns]

\* Array2D.__iter__: the Points yielded, in the order of the dictionary
Iter(m) == [n \in 1..Len(m) |-> NewPoint(m[n].k, m[n].v)]

\* the cols/rows argument of iterLocs as the list the loops run over:
\* [t |-> "none"] is None, [t |-> "int", i |-> n] an int, [t |-> "list", l |-> <<...>>] a list
AsList(a, extent) ==
    CASE a.t = "int"  -> <<a.i>>
      [] a.t = "none" -> [n \in 1..extent |-> n - 1]
      [] OTHER        -> a.l

\* the inner for loop of iterLocs; o is the outer loop's index (a row, or a
\* column under transpose); st = [out, giveWarning, warns]
RECURSIVE IterLocsInner(_, _, _, _, _)
IterLocsInner(o, inner, n, transpose, st) ==
    IF n > Len(inner) THEN st
    ELSE LET i == IF transpose THEN o ELSE inner[n]
             j == IF transpose THEN inner[n] ELSE o
         IN IF i < cols /\ j < rows
            THEN IterLocsInner(o, inner, n + 1, transpose,
                               [st EXCEPT !.out = Append(@, <<i, j>>)])
            ELSE IterLocsInner(o, inner, n + 1, transpose,
                               [out         |-> st.out,
                                giveWarning |-> FALSE,
                                warns       |-> IF st.giveWarning THEN st.warns + 1
                                                ELSE st.warns])

\* the outer for loop of iterLocs
RECURSIVE IterLocsOuter(_, _, _, _, _)
IterLocsOuter(outer, inner, n, transpose, st) ==
    IF n > Len(outer) THEN st
    ELSE IterLocsOuter(outer, inner, n + 1, transpose,
                       IterLocsInner(outer[n], inner, 1, transpose, st))

\* Array2D.iterLocs, run to exhaustion: the coordinates yielded, in order
IterLocs(colsArg, rowsArg, transpose) ==
    LET cl == AsList(colsArg, cols)
        rl == AsList(rowsArg, rows)
        st0 == [out |-> <<>>, giveWarning |-> TRUE, warns |-> 0]
        st == IF ~transpose THEN IterLocsOuter(rl, cl, 1, FALSE, st0)
              ELSE IterLocsOuter(cl, rl, 1, TRUE, st0)
    IN [ret |-> st.out, warns |-> st.warns]

(* ------------------------------ actions -------------------------------- *)
Grid == <<cols, rows, wrapX, wrapY>>

\* the state after grid = Array2D(c, r, d, wx, wy) and pt = Point((0, 0), d)
InitGrid(wraps, defaults) ==
    /\ cols \in 1..MaxCells
    /\ rows \in 1..MaxCells
    /\ cols * rows <= MaxCells
    /\ wrapX \in wraps
    /\ wrapY \in wraps
    /\ \E d \in defaults :
          /\ matrix = NewMatrix(cols, rows, d)
          /\ pt = NewPoint(<<0, 0>>, d)

\* pt.setPos(xy) and pt.setPos(xy, grid)
DoSetPos ==
    \E xy \in Coord, useGrid \in BOOLEAN :
        LET r == SetPos(pt, xy, useGrid)
        IN /\ pt' = r.pt
           /\ call' = [op |-> "setPos", xy |-> xy, useGrid |-> useGrid, warns |-> r.warns]
           /\ UNCHANGED <<Grid, matrix>>

\* pt.setMove(direction, moves) and pt.setMove(direction, moves, grid); the
\* model follows the Point while it stays in Coord
DoSetMove ==
    \E direction \in Directions \cup {NoDirection}, moves \in Moves, useGrid \in BOOLEAN :
        LET r == SetMove(pt, direction, moves, useGrid)
        IN /\ r.pt.xyPair \in Coord
           /\ pt' = r.pt
           /\ call' = [op |-> "setMove", direction |-> direction, moves |-> moves,
                        useGrid |-> useGrid, warns |-> r.warns]
           /\ UNCHANGED <<Grid, matrix>>

\* sequences over S of length at most n
RECURSIVE SeqsUpTo(_, _)
SeqsUpTo(S, n) ==
    IF n = 0 THEN {<<>>}
    ELSE LET shorter == SeqsUpTo(S, n - 1)
         IN shorter \cup {Append(q, e) : q \in shorter, e \in S}

\* the coordinates the lists handed to getData and setData are made of: two
\* corners of the rectangle and one coordinate outside it
ListCoord == {<<0, 0>>, <<cols - 1, rows - 1>>, <<cols, rows - 1>>}

\* the xyPair arguments of getData and setData: any tuple of Coord, or a list
\* of at most MaxLen tuples of ListCoord
XYArgs ==
    {[isList |-> FALSE, l |-> <<xy>>] : xy \in Coord}
        \cup {[isList |-> TRUE, l |-> l] : l \in SeqsUpTo(ListCoord, MaxLen)}

\* grid.setData(xyPair, d)
DoSetData ==
    \E arg \in XYArgs, d \in Data :
        LET r == SetData(matrix, arg, d)
        IN /\ matrix' = r.m
           /\ call' = [op |-> "setData", arg |-> arg, d |-> d, warns |-> r.warns]
           /\ UNCHANGED <<Grid, pt>>

\* grid.getData(xyPair)
DoGetData ==
    \E arg \in XYArgs :
        LET r == GetData(matrix, arg)
        IN /\ call' = [op |-> "getData", arg |-> arg, ret |-> r.ret, warns |-> r.warns]
           /\ UNCHANGED <<Grid, matrix, pt>>

\* iterating the grid twice: list(grid), list(grid)
DoIter ==
    /\ call' = [op |-> "iter", first |-> Iter(matrix), second |-> Iter(matrix)]
    /\ UNCHANGED <<Grid, matrix, pt>>

\* the positions of the Points handed to the grid: every cell of the
\* rectangle, one coordinate below it and one beyond it
PointCoord == Rect \cup {<<0 - 1, 0>>, <<cols, rows - 1>>}

\* the Points handed to the grid: p = Point(xy, d)
Points == {NewPoint(xy, d) : xy \in PointCoord, d \in Data}

\* grid.loadFrom(p); the model follows at most MaxExtra keys beyond the rectangle
DoArrayLoadFrom ==
    \E p \in Points :
        LET r == ArrayLoadFrom(matrix, p)
        IN /\ Len(r.m) <= cols * rows + MaxExtra
           /\ matrix' = r.m
           /\ call' = [op |-> "Array2D.loadFrom", p |-> p, after |-> r.pt, warns |-> r.warns]
           /\ UNCHANGED <<Grid, pt>>

\* grid.saveTo(p)
DoArraySaveTo ==
    \E p \in Points :
        LET r == ArraySaveTo(matrix, p)
        IN /\ matrix' = r.m
           /\ call' = [op |-> "Array2D.saveTo", p |-> p, after |-> r.pt, warns |-> r.warns]
           /\ UNCHANGED <<Grid, pt>>

\* p.loadFrom(grid)
DoPointLoadFrom ==
    \E p \in Points :
        LET r == PointLoadFrom(p, matrix)
        IN /\ matrix' = r.m
           /\ call' = [op |-> "Point.loadFrom", p |-> p, after |-> r.pt, warns |-> r.warns]
           /\ UNCHANGED <<Grid, pt>>

\* p.saveTo(grid)
DoPointSaveTo ==
    \E p \in Points :
        LET r == PointSaveTo(p, matrix)
        IN /\ matrix' = r.m
           /\ call' = [op |-> "Point.saveTo", p |-> p, after |-> r.pt, warns |-> r.warns]
           /\ UNCHANGED <<Grid, pt>>

\* grid.asPoint(xy)
DoAsPoint ==
    \E xy \in Coord :
        LET r == AsPoint(matrix, xy)
        IN /\ call' = [op |-> "asPoint", xy |-> xy, ok |-> r.ok, ret |-> r.pt,
                        warns |-> r.warns]
           /\ UNCHANGED <<Grid, matrix, pt>>

\* the cols (rows) arguments of iterLocs on an axis of the given extent:
\* None, an int, or a list of at most MaxLen ints, from -1 to the extent
LocsArgs(extent) ==
    {[t |-> "none"]}
        \cup {[t |-> "int", i |-> i] : i \in (0 - 1)..extent}
        \cup {[t |-> "list", l |-> l] : l \in SeqsUpTo((0 - 1)..extent, MaxLen)}

\* list(grid.iterLocs(colsArg, rowsArg, transpose)) with the arguments drawn
\* at the start; calling again restarts the iteration
DoIterLocs ==
    LET r == IterLocs(call.colsArg, call.rowsArg, call.transpose)
    IN /\ call' = [op |-> "iterLocs", colsArg |-> call.colsArg, rowsArg |-> call.rowsArg,
                    transpose |-> call.transpose, ret |-> r.ret, warns |-> r.warns]
       /\ UNCHANGED <<Grid, matrix, pt>>

(* --------------------------- specifications ---------------------------- *)
\* a Point moved over a grid
InitMove == InitGrid(BOOLEAN, {None}) /\ call = [op |-> "init"]
NextMove == DoSetPos \/ DoSetMove
SpecMove == InitMove /\ [][NextMove]_vars

\* the grid alone: setData, getData and iteration
InitCells == InitGrid({FALSE}, Data) /\ call = [op |-> "init"]
NextCells == DoSetData \/ DoGetData \/ DoIter
SpecCells == InitCells /\ [][NextCells]_vars

\* the grid and the Points synchronised with it
InitSync == InitGrid({FALSE}, Data) /\ call = [op |-> "init"]
NextSync ==
    \/ DoSetData
    \/ DoGetData
    \/ DoArrayLoadFrom
    \/ DoArraySaveTo
    \/ DoPointLoadFrom
    \/ DoPointSaveTo
    \/ DoAsPoint
SpecSync == InitSync /\ [][NextSync]_vars

\* the grid's coordinate iterator, applied to arguments drawn at the start
InitLocs ==
    /\ InitGrid({FALSE}, {None})
    /\ \E colsArg \in LocsArgs(cols), rowsArg \in LocsArgs(rows), transpose \in BOOLEAN :
          call = [op |-> "args", colsArg |-> colsArg, rowsArg |-> rowsArg,
                  transpose |-> transpose]
NextLocs == DoIterLocs
SpecLocs == InitLocs /\ [][NextLocs]_vars

(* ------------------------------- claims -------------------------------- *)
Tuple(xy) == [isList |-> FALSE, l |-> <<xy>>]
Elems(l) == {l[n] : n \in 1..Len(l)}
Horizontal(direction) == direction \in {"LEFT", "RIGHT"}
WrapOn(direction) == IF Horizontal(direction) THEN wrapX ELSE wrapY
Extent(direction) == IF Horizontal(direction) THEN cols ELSE rows
AxisOf(xy, direction) == IF Horizontal(direction) THEN xy[1] ELSE xy[2]
OffAxis(xy, direction) ==
    AxisOf(xy, direction) < 0 \/ AxisOf(xy, direction) >= Extent(direction)
\* a grid-validated setMove of moves >= 1 from a position inside the grid
GridMoveStep ==
    /\ call'.op = "setMove"
    /\ call'.useGrid
    /\ call'.direction \in Directions
    /\ call'.moves >= 1
    /\ Inside(pt.xyPair)

\* C1: the key set of the grid's mapping is exactly the rectangle
\* {(i, j) : 0 <= i < cols, 0 <= j < rows} in every reachable state: no key
\* is ever added or removed.
C1_KeysAreRectangle == Keys(matrix) = Rect /\ Len(matrix) = cols * rows

\* C2: a grid-validated setMove of moves >= 1 from inside the grid whose
\* getMove destination leaves [0, extent) on the axis of movement, on a grid
\* that wraps that axis, is not rejected: the moved coordinate becomes the
\* destination modulo the extent and the other coordinate is unchanged.
C2_WrapMove ==
    [][(GridMoveStep /\ WrapOn(call'.direction)
          /\ OffAxis(GetMove(pt, call'.direction, call'.moves).ret, call'.direction))
       => LET dest == GetMove(pt, call'.direction, call'.moves).ret
          IN /\ call'.warns = 0
             /\ pt'.xyPair = IF Horizontal(call'.direction)
                             THEN <<dest[1] % cols, pt.xyPair[2]>>
                             ELSE <<pt.xyPair[1], dest[2] % rows>>]_vars

\* C3: a grid-validated setMove of moves >= 1 from inside a grid that does not
\* wrap the axis of movement leaves the position unchanged and warns when the
\* getMove destination is outside [0, extent) on that axis, and otherwise sets
\* the position to exactly that destination; the Point's payload and the grid
\* are unchanged either way.
C3_NoWrapMove ==
    [][(GridMoveStep /\ ~WrapOn(call'.direction))
       => LET dest == GetMove(pt, call'.direction, call'.moves).ret
          IN /\ OffAxis(dest, call'.direction)
                  => (pt'.xyPair = pt.xyPair /\ call'.warns = 1)
             /\ ~OffAxis(dest, call'.direction)
                  => (pt'.xyPair = dest /\ call'.warns = 0)
             /\ pt'.data = pt.data
             /\ matrix' = matrix
             /\ Grid' = Grid]_vars

\* C3 witness: a move of moves >= 1 was rejected at the boundary of a grid
\* that does not wrap the axis of movement
C3_Witness ==
    /\ call.op = "setMove"
    /\ call.useGrid
    /\ call.direction \in Directions
    /\ call.moves >= 1
    /\ ~WrapOn(call.direction)
    /\ call.warns = 1
    /\ Inside(pt.xyPair)

\* C4: a Point inside the grid's rectangle stays inside it after every
\* grid-validated setPos and setMove, for every target, direction, integer
\* moves and wrap flags.
C4_StaysInside ==
    [][(call'.op \in {"setPos", "setMove"} /\ call'.useGrid /\ Inside(pt.xyPair))
       => Inside(pt'.xyPair)]_vars

\* C5: Point.loadFrom(grid) has the effect of Array2D.saveTo(point) and
\* Point.saveTo(grid) the effect of Array2D.loadFrom(point): from the same grid
\* and Point they end in the same mapping and the same Point and warn in the
\* same cases.
C5_LoadSaveEquivalent ==
    [][LET done == [m |-> matrix', pt |-> call'.after, warns |-> call'.warns]
       IN /\ call'.op = "Point.loadFrom" => done = ArraySaveTo(matrix, call'.p)
          /\ call'.op = "Array2D.saveTo" => done = PointLoadFrom(call'.p, matrix)
          /\ call'.op = "Point.saveTo" => done = ArrayLoadFrom(matrix, call'.p)
          /\ call'.op = "Array2D.loadFrom" => done = PointSaveTo(call'.p, matrix)]_vars

\* C6: Array2D.loadFrom and Array2D.saveTo with a Point outside the rectangle
\* warn and change neither the mapping nor the Point; with a Point inside,
\* loadFrom sets exactly that cell to the Point's payload and saveTo sets the
\* Point's payload to that cell's, every other cell unchanged.
C6_LoadSaveRange ==
    [][/\ (call'.op \in {"Array2D.loadFrom", "Array2D.saveTo"}
             /\ ~Inside(call'.p.xyPair))
          => (call'.warns = 1 /\ matrix' = matrix /\ call'.after = call'.p)
       /\ (call'.op = "Array2D.loadFrom" /\ Inside(call'.p.xyPair))
          => /\ call'.after = call'.p
             /\ Len(matrix') = Len(matrix)
             /\ \A n \in 1..Len(matrix) :
                   matrix'[n] = IF matrix[n].k = call'.p.xyPair
                                THEN [k |-> matrix[n].k, v |-> call'.p.data]
                                ELSE matrix[n]
       /\ (call'.op = "Array2D.saveTo" /\ Inside(call'.p.xyPair))
          => /\ matrix' = matrix
             /\ call'.after = [call'.p EXCEPT !.data = Lookup(matrix, call'.p.xyPair)]]_vars

\* the coordinates iterLocs is asked for, as <<i, j>> in the order of the loops
Requested(colsArg, rowsArg, transpose) ==
    LET cl == AsList(colsArg, cols)
        rl == AsList(rowsArg, rows)
    IN IF ~transpose
       THEN [n \in 1..(Len(rl) * Len(cl)) |->
                <<cl[((n - 1) % Len(cl)) + 1], rl[((n - 1) \div Len(cl)) + 1]>>]
       ELSE [n \in 1..(Len(cl) * Len(rl)) |->
                <<cl[((n - 1) \div Len(rl)) + 1], rl[((n - 1) % Len(rl)) + 1]>>]

\* C7: iterLocs yields exactly the in-bounds members (0 <= i < cols,
\* 0 <= j < rows) of the requested product, rows outer and cols inner, or
\* cols outer and rows inner under transpose, and warns at most once per call.
C7_IterLocsInBounds ==
    call.op = "iterLocs"
    => /\ call.ret = SelectSeq(Requested(call.colsArg, call.rowsArg, call.transpose), Inside)
       /\ call.warns <= 1

\* C8: after setData(L, v), getData(c) = v for every in-range c of L, also
\* when L holds out-of-range coordinates, and every cell whose coordinate is
\* not in L keeps its payload.
C8_SetThenGet ==
    [][call'.op = "setData"
       => /\ \A c \in Elems(call'.arg.l) :
                Inside(c) => GetData(matrix', Tuple(c)) = [ret |-> <<call'.d>>, warns |-> 0]
          /\ \A c \in Keys(matrix) \ Elems(call'.arg.l) :
                HasKey(matrix', c) /\ Lookup(matrix', c) = Lookup(matrix, c)]_vars

\* C8 witness: setData was given a list holding an in-range and an
\* out-of-range coordinate, and a cell outside the list holds another payload
C8_Witness ==
    /\ call.op = "setData"
    /\ call.arg.isList
    /\ \E c \in Elems(call.arg.l) : Inside(c) /\ Lookup(matrix, c) = call.d
    /\ \E c \in Elems(call.arg.l) : ~Inside(c)
    /\ \E c \in Rect \ Elems(call.arg.l) : Lookup(matrix, c) # call.d

\* C9: getData of a coordinate outside the rectangle returns None, warns and
\* leaves the grid unchanged; setData of such a coordinate warns and leaves
\* the mapping unchanged; for a list, getData returns a list of the same
\* length with None at the out-of-range positions and the cell's payload at
\* the others, and getData and setData warn at most once per call.
C9_OutOfRange ==
    [][/\ call'.op = "getData"
          => LET l == call'.arg.l
             IN /\ Len(call'.ret) = Len(l)
                /\ \A n \in 1..Len(l) :
                      call'.ret[n] = IF Inside(l[n]) THEN Lookup(matrix, l[n]) ELSE None
                /\ call'.warns <= 1
                /\ (~call'.arg.isList /\ ~Inside(l[1])) => call'.warns = 1
                /\ matrix' = matrix
       /\ call'.op = "setData"
          => /\ call'.warns <= 1
             /\ (~call'.arg.isList /\ ~Inside(call'.arg.l[1]))
                  => (call'.warns = 1 /\ matrix' = matrix)]_vars

\* C10: on a grid reached by setData calls, iterating yields cols * rows
\* Points, one per coordinate of the rectangle, each with its cell's current
\* payload, in row-major order (0,0), (1,0), ..., (cols-1, rows-1); iterating
\* again yields the same sequence.
C10_IterRowMajor ==
    /\ Len(Iter(matrix)) = cols * rows
    /\ \A t \in 1..Len(Iter(matrix)) :
          /\ Iter(matrix)[t].xyPair = <<(t - 1) % cols, (t - 1) \div cols>>
          /\ <<Iter(matrix)[t].data>> = GetData(matrix, Tuple(Iter(matrix)[t].xyPair)).ret
    /\ call.op = "iter" => (call.first = Iter(matrix) /\ call.second = call.first)

\* C10 witness: a grid of two columns and two rows or more, holding different
\* payloads after setData, has been iterated
C10_Witness ==
    /\ call.op = "iter"
    /\ cols >= 2
    /\ rows >= 2
    /\ \E a \in Rect, b \in Rect : Lookup(matrix, a) # Lookup(matrix, b)

====
